---- MODULE Spec2Model ----
(***************************************************************************)
(* PyraPro plan generator: utils/generator.ts (generatePlan) as called by  *)
(* App.tsx (handleGenerate), with the date-fns / JS Date operations it     *)
(* uses (addDays, differenceInCalendarDays, format, new Date, getTime)     *)
(* modelled on a real Gregorian calendar.                                  *)
(*                                                                         *)
(* Calendar days are counted from Monday 1 January 2024 (day 0).  A Date   *)
(* is a local calendar day plus an hour of the day; an Invalid Date has    *)
(* valid = FALSE.  A JS number that may be NaN is a record [nan, v].       *)
(***************************************************************************)
EXTENDS Integers, Sequences, FiniteSets, TLC

VARIABLES
  now,        \* the wall clock, what new Date() returns
  tzWest,     \* the browser's time zone is west of Greenwich
  called,     \* handleGenerate has run
  inputs,     \* the PlanInputs of the last call (the form's defaults before)
  today,      \* generatePlan's today in the last call
  totalWeeks, \* generatePlan's totalWeeks in the last call
  outcome,    \* how the last call ended: "none", "returned" or "threw"
  rows        \* App's rows state

vars == <<now, tzWest, called, inputs, today, totalWeeks, outcome, rows>>

----------------------------------------------------------------------------
(* Bounds of the model *)

\* the clock advances at most this many days after the page was opened
MaxTicks == 1

----------------------------------------------------------------------------
(* Calendar: what JS Date and date-fns compute *)

Years == 2024 .. 2026

EpochYear == CHOOSE y \in Years : \A z \in Years : y <= z
HoursPerDay == 24
DaysPerWeek == 7

IsLeap(y) == (y % 4 = 0 /\ y % 100 # 0) \/ y % 400 = 0

DaysInMonth(y, m) ==
  IF m = 2 THEN (IF IsLeap(y) THEN 29 ELSE 28)
  ELSE IF m \in {4, 6, 9, 11} THEN 30 ELSE 31

DaysInYear(y) == IF IsLeap(y) THEN 366 ELSE 365

RECURSIVE DaysBeforeYear(_)
DaysBeforeYear(y) ==
  IF y <= EpochYear THEN 0 ELSE DaysBeforeYear(y - 1) + DaysInYear(y - 1)

RECURSIVE DaysBeforeMonth(_, _)
DaysBeforeMonth(y, m) ==
  IF m <= 1 THEN 0 ELSE DaysBeforeMonth(y, m - 1) + DaysInMonth(y, m - 1)

\* the calendar days the model can name: the three years from the epoch
LastDay == DaysBeforeYear(EpochYear + Cardinality(Years)) - 1

YearOf(n) ==
  CHOOSE y \in Years : DaysBeforeYear(y) <= n /\ n < DaysBeforeYear(y + 1)

MonthOf(n) ==
  LET y == YearOf(n)
      k == n - DaysBeforeYear(y)
  IN CHOOSE m \in 1..12 :
       DaysBeforeMonth(y, m) <= k /\ k < DaysBeforeMonth(y, m) + DaysInMonth(y, m)

\* the civil date <<yyyy, M, d>> of every calendar day, computed once
CivilOfDay ==
  [n \in 0..LastDay |->
     <<YearOf(n), MonthOf(n),
       n - DaysBeforeYear(YearOf(n)) - DaysBeforeMonth(YearOf(n), MonthOf(n)) + 1>>]

YearOfDay(n) == CivilOfDay[n][1]

MonthOfDay(n) == CivilOfDay[n][2]

DayOfMonth(n) == CivilOfDay[n][3]

\* days before the first of each month, per year, computed once
DaysBeforeMonthOf ==
  [y \in Years |-> [m \in 1..12 |-> DaysBeforeYear(y) + DaysBeforeMonth(y, m)]]

MonthNames ==
  <<"Jan", "Feb", "Mar", "Apr", "May", "Jun",
    "Jul", "Aug", "Sep", "Oct", "Nov", "Dec">>

\* index 0 is Monday because day 0 (1 Jan 2024) is a Monday
DayNames == <<"Mon", "Tue", "Wed", "Thu", "Fri", "Sat", "Sun">>

\* local calendar day number of the civil date y-m-d
CivilToDay(y, m, d) == DaysBeforeMonthOf[y][m] + (d - 1)

MonthIndex(name) == CHOOSE m \in 1..12 : MonthNames[m] = name

InvalidDate == [valid |-> FALSE, day |-> 0, hour |-> 0]

MkDate(n, h) == [valid |-> TRUE, day |-> n, hour |-> h]

NaN == [nan |-> TRUE, v |-> 0]

Num(n) == [nan |-> FALSE, v |-> n]

\* date-fns addDays: setDate(getDate() + amount), the local time of day is kept
addDays(d, amount) == MkDate(d.day + amount, d.hour)

\* date-fns format(d, 'EEE, MMM d yyyy'): the time of day is not printed
fmt(d) ==
  <<DayNames[(d.day % DaysPerWeek) + 1], MonthNames[MonthOfDay(d.day)],
    DayOfMonth(d.day), YearOfDay(d.day)>>

\* new Date('EEE, MMM d yyyy'): local midnight of the printed day; the
\* weekday name is not used to find the day
ParseDisplay(s) == MkDate(CivilToDay(s[4], MonthIndex(s[2]), s[3]), 0)

\* Date.prototype.getTime, in hours
getTime(d) == d.day * HoursPerDay + d.hour

\* The form's yyyy-MM-dd string, as <<yyyy, MM, dd>>
IsoOfDay(n) == <<YearOfDay(n), MonthOfDay(n), DayOfMonth(n)>>

\* new Date('yyyy-MM-dd'): a date-only ISO string is midnight UTC, which west
\* of Greenwich is the evening of the previous local day; a string that is
\* not a date gives an Invalid Date
ParseISO(s, west) ==
  IF Len(s) = 3 /\ s[1] \in Years /\ s[2] \in 1..12
     /\ s[3] \in 1..DaysInMonth(s[1], s[2])
  THEN IF west THEN MkDate(CivilToDay(s[1], s[2], s[3]) - 1, HoursPerDay - 5)
       ELSE MkDate(CivilToDay(s[1], s[2], s[3]), 0)
  ELSE InvalidDate

\* date-fns differenceInCalendarDays: whole local calendar days, NaN when
\* either date is invalid
differenceInCalendarDays(l, r) ==
  IF l.valid /\ r.valid THEN Num(l.day - r.day) ELSE NaN

\* Math.ceil(x / 7)
CeilDiv7(x) == IF x.nan THEN NaN ELSE Num(-((-x.v) \div DaysPerWeek))

\* Math.max(a, b) for numbers that may be NaN
MathMax(a, b) ==
  IF a.nan \/ b.nan THEN NaN ELSE IF a.v >= b.v THEN a ELSE b

\* a < b of JS: false when either side is NaN
Less(a, b) == ~a.nan /\ ~b.nan /\ a.v < b.v

----------------------------------------------------------------------------
(* utils/generator.ts *)

MinWeeks == 4
MaintenanceWeeks == 12
RaceLongSeed == 90
MaintenanceLongSeed == 60
LongRunStep == 10
DefaultCurrentHours == 5
RaceMaxHoursFloor == 10
MaintenanceMaxHoursFloor == 8
MaxHoursMargin == 2

\* x || dflt for an optional number: <<>> is undefined, <<n>> is the number n
OrDefault(x, dflt) == IF Len(x) = 0 \/ x[1] = 0 THEN dflt ELSE x[1]

Max(a, b) == IF a >= b THEN a ELSE b

\* inputs.raceDate ? new Date(inputs.raceDate) : today
RaceDateOf(inp, td, west) ==
  IF Len(inp.raceDate) # 0 THEN ParseISO(inp.raceDate, west) ELSE td

DaysUntil(inp, td, west) ==
  differenceInCalendarDays(RaceDateOf(inp, td, west), td)

TotalWeeks(inp, td, west) ==
  IF inp.planType = "race"
  THEN MathMax(Num(MinWeeks), CeilDiv7(DaysUntil(inp, td, west)))
  ELSE Num(MaintenanceWeeks)

CurHrs(inp) == OrDefault(inp.currentHours, DefaultCurrentHours)

MaxHrs(inp) ==
  OrDefault(inp.maxHours,
            IF inp.planType = "race"
            THEN Max(CurHrs(inp) + MaxHoursMargin, RaceMaxHoursFloor)
            ELSE Max(CurHrs(inp) + MaxHoursMargin, MaintenanceMaxHoursFloor))

LongSeed(inp) == IF inp.planType = "race" THEN RaceLongSeed ELSE MaintenanceLongSeed

\* the ramp factor t as the fraction <<numerator, denominator>>
RampT(tw, w) == IF tw > 1 THEN <<w, tw - 1>> ELSE <<1, 1>>

\* start + (end - start) * t, as a fraction over the denominator of t
lerp(start, end, t) == <<start * t[2] + (end - start) * t[1], t[2]>>

TargetHrs(inp, tw, w) == lerp(CurHrs(inp), MaxHrs(inp), RampT(tw, w))

\* Session texts are written in ASCII: "-" for the en dash, "x" for the
\* multiplication sign, "2" for the subscript two, no degree sign.
Row(d, s) == [date |-> fmt(d), session |-> s]

WeekStart(td, w) == addDays(td, w * DaysPerWeek)

\* a long run lengthened by the weekly target hours
LongRunMinRamped(longSeed, w, targetHrs) ==
  longSeed + w * LongRunStep + (targetHrs[1] \div targetHrs[2])

\* a long run that stops growing at two hours
LongRunMinCapped(longSeed, w, targetHrs) ==
  IF longSeed + w * LongRunStep > 120 THEN 120 ELSE longSeed + w * LongRunStep

\* longRunMin; targetHrs is in scope where it is computed and is not used
LongRunMin(longSeed, w, targetHrs) == longSeed + w * LongRunStep

LongRunSession(min) == <<"Long run - ", min, " min easy">>

\* 1) long run on day index 6
LongRunRows(inp, td, tw, w) ==
  <<Row(addDays(WeekStart(td, w), 6),
        LongRunSession(LongRunMin(LongSeed(inp), w, TargetHrs(inp, tw, w))))>>

\* the alternation started on the other parity
ThrSessionSwapped(courseProfile, w) ==
  IF courseProfile = "flat" THEN <<"Threshold 20 min continuous">>
  ELSE IF w % 2 = 1 THEN <<"Uphill-Tempo 6x5 min">>
       ELSE <<"Threshold 20 min continuous">>

ThrSession(courseProfile, w) ==
  IF courseProfile = "flat" THEN <<"Threshold 20 min continuous">>
  ELSE IF w % 2 = 0 THEN <<"Uphill-Tempo 6x5 min">>
       ELSE <<"Threshold 20 min continuous">>

\* 2) threshold or hill-tempo on day index 2
ThresholdRows(inp, td, w) ==
  <<Row(addDays(WeekStart(td, w), 2), ThrSession(inp.courseProfile, w))>>

\* VO2 intervals without the down-week test
VO2RowsEveryWeek(td, w) ==
  <<Row(addDays(WeekStart(td, w), 4), <<"VO2max 4x4 min">>)>>

\* 3) VO2 intervals on day index 4, except in every 4th week
VO2Rows(td, w) ==
  IF w % 4 # 3
  THEN <<Row(addDays(WeekStart(td, w), 4), <<"VO2max 4x4 min">>)>>
  ELSE <<>>

HWIRow(td, w) == Row(addDays(WeekStart(td, w), 1), <<"HWI 19 min @ 40C">>)

\* heat-block placement with w > totalWeeks - 2 for w >= totalWeeks - 2
HeatRowsLate(inp, td, tw, w) ==
  IF inp.planType = "race" /\ inp.heatBlock # "none"
  THEN (IF inp.heatBlock = "monoblock" /\ w > tw - 2
        THEN <<HWIRow(td, w)>> ELSE <<>>)
       \o
       (IF inp.heatBlock = "biphasic" /\ (w < 2 \/ w > tw - 2)
        THEN <<HWIRow(td, w)>> ELSE <<>>)
  ELSE <<>>

\* 4) heat-block placement: the monoblock test, then the biphasic test
HeatRows(inp, td, tw, w) ==
  IF inp.planType = "race" /\ inp.heatBlock # "none"
  THEN (IF inp.heatBlock = "monoblock" /\ w >= tw - 2
        THEN <<HWIRow(td, w)>> ELSE <<>>)
       \o
       (IF inp.heatBlock = "biphasic" /\ (w < 2 \/ w >= tw - 2)
        THEN <<HWIRow(td, w)>> ELSE <<>>)
  ELSE <<>>

\* extra VO2 on every odd week, down-weeks included
ExtraVO2RowsEveryOdd(inp, td, w) ==
  IF inp.planType = "maintenance_plus" /\ w % 2 = 1
  THEN <<Row(addDays(WeekStart(td, w), 5), <<"Additional VO2 4x4 min">>)>>
  ELSE <<>>

\* 5) maintenance-plus: extra VO2 on day index 5
ExtraVO2Rows(inp, td, w) ==
  IF inp.planType = "maintenance_plus" /\ w % 2 = 1 /\ w % 4 # 3
  THEN <<Row(addDays(WeekStart(td, w), 5), <<"Additional VO2 4x4 min">>)>>
  ELSE <<>>

\* the rows one iteration of the loop pushes, in push order
WeekRows(inp, td, tw, w) ==
  LongRunRows(inp, td, tw, w) \o ThresholdRows(inp, td, w) \o VO2Rows(td, w)
    \o HeatRows(inp, td, tw, w) \o ExtraVO2Rows(inp, td, w)

\* the loop with w <= totalWeeks
RECURSIVE LoopInclusive(_, _, _, _, _)
LoopInclusive(inp, td, tw, w, acc) ==
  IF ~tw.nan /\ w <= tw.v
  THEN LoopInclusive(inp, td, tw, w + 1, acc \o WeekRows(inp, td, tw.v, w))
  ELSE acc

\* for (let w = 0; w < totalWeeks; w++)
RECURSIVE Loop(_, _, _, _, _)
Loop(inp, td, tw, w, acc) ==
  IF Less(Num(w), tw)
  THEN Loop(inp, td, tw, w + 1, acc \o WeekRows(inp, td, tw.v, w))
  ELSE acc

\* the sort comparator: new Date(a.date).getTime() - new Date(b.date).getTime()
Compare(a, b) == getTime(ParseDisplay(a.date)) - getTime(ParseDisplay(b.date))

\* Array.prototype.sort is stable: x goes after the last element that does
\* not compare greater than it
RECURSIVE Insert(_, _)
Insert(sorted, x) ==
  IF sorted = <<>> THEN <<x>>
  ELSE IF Compare(sorted[Len(sorted)], x) <= 0 THEN Append(sorted, x)
       ELSE Append(Insert(SubSeq(sorted, 1, Len(sorted) - 1), x),
                   sorted[Len(sorted)])

RECURSIVE SortFrom(_, _, _)
SortFrom(rs, i, acc) ==
  IF i > Len(rs) THEN acc ELSE SortFrom(rs, i + 1, Insert(acc, rs[i]))

\* the rows returned in push order
SortRowsNone(rs) == rs

SortRows(rs) == SortFrom(rs, 1, <<>>)

generatePlan(inp, td, west) ==
  SortRows(Loop(inp, td, TotalWeeks(inp, td, west), 0, <<>>))

----------------------------------------------------------------------------
(* The inputs the form can submit and the clock *)

PlanTypes == {"race", "maintenance", "maintenance_plus"}
CourseProfiles == {"flat", "rolling", "hilly", "ultra"}
HeatBlocks == {"none", "monoblock", "biphasic"}

\* race dates, in days from the current day; 28 and 70 are whole weeks, 29 is
\* one day more than four weeks, -3 is a race in the past
RaceOffsets == {-3, 28, 29, 70}

\* a raceDate string that is not a date (month 13)
BadRaceDate == <<EpochYear, 13, 1>>

RaceDates(td) == {<<>>, BadRaceDate} \cup {IsoOfDay(td.day + k) : k \in RaceOffsets}

\* the fields generatePlan takes no decision from, as the form submits them
\* by default
FormDefaults ==
  [currentHours |-> <<>>, maxHours |-> <<>>, firefighter |-> FALSE,
   shiftPattern |-> "", nextShiftISO |-> "", strength |-> FALSE,
   timeVsDistance |-> "time", vt1 |-> <<>>, vo2max |-> <<>>]

\* the same fields with every one of them filled in
FilledIn ==
  [currentHours |-> <<3>>, maxHours |-> <<12>>, firefighter |-> TRUE,
   shiftPattern |-> "24/48", nextShiftISO |-> "2024-02-12", strength |-> TRUE,
   timeVsDistance |-> "distance", vt1 |-> <<140>>, vo2max |-> <<55>>]

MkInputs(pt, rd, cp, hb, u) ==
  [planType |-> pt, raceDate |-> rd, courseProfile |-> cp, heatBlock |-> hb,
   currentHours |-> u.currentHours, maxHours |-> u.maxHours,
   firefighter |-> u.firefighter, shiftPattern |-> u.shiftPattern,
   nextShiftISO |-> u.nextShiftISO, strength |-> u.strength,
   timeVsDistance |-> u.timeVsDistance, vt1 |-> u.vt1, vo2max |-> u.vo2max]

\* PlanInputs values: every race plan with the default extras, some race
\* plans with the extras filled in, and maintenance plans with and without a
\* race date left in the form
InputSet(td) ==
  { MkInputs("race", rd, cp, hb, FormDefaults) :
      rd \in RaceDates(td), cp \in CourseProfiles, hb \in HeatBlocks }
  \cup
  { MkInputs("race", rd, cp, hb, FilledIn) :
      rd \in {<<>>, IsoOfDay(td.day + 29)}, cp \in {"flat", "ultra"},
      hb \in HeatBlocks }
  \cup
  { MkInputs(pt, rd, cp, hb, u) :
      pt \in {"maintenance", "maintenance_plus"},
      rd \in {<<>>, IsoOfDay(td.day + 70)}, cp \in {"flat", "hilly"},
      hb \in {"none", "biphasic"}, u \in {FormDefaults} }
  \cup
  { MkInputs(pt, <<>>, cp, "none", FilledIn) :
      pt \in {"maintenance", "maintenance_plus"}, cp \in {"flat", "rolling"} }

\* the form's defaultValues, before anything was submitted
DefaultInputs(td) ==
  MkInputs("race", IsoOfDay(td.day), "rolling", "none",
           FormDefaults)

\* the days on which the page is opened: 10 Feb 2024 (a 12-week plan crosses
\* 29 Feb) and 27 Oct 2024 (a plan crosses the new year)
StartClocks == {MkDate(40, 9), MkDate(300, 21)}

----------------------------------------------------------------------------
(* App.tsx *)

Init ==
  /\ now \in StartClocks
  /\ tzWest \in BOOLEAN
  /\ called = FALSE
  /\ inputs = DefaultInputs(now)
  /\ today = now
  /\ totalWeeks = Num(0)
  /\ outcome = "none"
  /\ rows = <<>>

\* handleGenerate(data): setRows(generatePlan(data)); today is the value of
\* new Date() in that call and totalWeeks the week count it computed.
\* generatePlan has no throw and calls format only on valid dates, so every
\* call returns.
HandleGenerate(data) ==
  /\ called' = TRUE
  /\ inputs' = data
  /\ today' = now
  /\ totalWeeks' = TotalWeeks(data, now, tzWest)
  /\ outcome' = "returned"
  /\ rows' = generatePlan(data, now, tzWest)
  /\ UNCHANGED <<now, tzWest>>

Submit == \E data \in InputSet(now) : HandleGenerate(data)

\* the wall clock moves on to the next day
Tick ==
  /\ \E s \in StartClocks : s.day <= now.day /\ now.day < s.day + MaxTicks
  /\ now' = addDays(now, 1)
  /\ UNCHANGED <<tzWest, called, inputs, today, totalWeeks, outcome, rows>>

Next == Submit \/ Tick

Spec == Init /\ [][Next]_vars

----------------------------------------------------------------------------
(* Reading the returned rows *)

\* the week indices the loop runs over: none when totalWeeks is NaN
Weeks == IF totalWeeks.nan THEN {} ELSE 0 .. (totalWeeks.v - 1)

\* the printed date of a row as <<yyyy, month number, day of month>>
CivilOfRow(r) == <<r.date[4], MonthIndex(r.date[2]), r.date[3]>>

\* calendar order on printed dates
CivilLeq(a, b) ==
  \/ a[1] < b[1]
  \/ a[1] = b[1] /\ a[2] < b[2]
  \/ a[1] = b[1] /\ a[2] = b[2] /\ a[3] <= b[3]

\* the number of days from today to the printed date of a row
OffsetOfRow(r) ==
  CivilToDay(r.date[4], MonthIndex(r.date[2]), r.date[3]) - today.day

\* the week a row's date belongs to: week w is the days today+7w .. today+7w+6
WeekOfRow(r) == OffsetOfRow(r) \div 7

IsLongRun(r) ==
  Len(r.session) = 3 /\ r.session[1] = "Long run - " /\ r.session[3] = " min easy"

IsThreshold(r) == r.session = <<"Threshold 20 min continuous">>

IsHillTempo(r) == r.session = <<"Uphill-Tempo 6x5 min">>

IsMidweek(r) == IsThreshold(r) \/ IsHillTempo(r)

IsVO2(r) == r.session = <<"VO2max 4x4 min">>

IsExtraVO2(r) == r.session = <<"Additional VO2 4x4 min">>

IsHWI(r) == r.session = <<"HWI 19 min @ 40C">>

\* the positions of the rows of week w that satisfy P
RowsOfWeek(w, P(_)) ==
  {i \in DOMAIN rows : WeekOfRow(rows[i]) = w /\ P(rows[i])}

CountOfWeek(w, P(_)) == Cardinality(RowsOfWeek(w, P))

\* a raceDate string that names a day of the calendar
IsCalendarDate(s) ==
  Len(s) = 3 /\ s[1] \in Years /\ s[2] \in 1..12
  /\ s[3] \in 1..DaysInMonth(s[1], s[2])

\* the calendar-day difference between the race date typed in the form (today
\* when there is none) and today
DaysToRace ==
  IF Len(inputs.raceDate) = 0 THEN 0
  ELSE CivilToDay(inputs.raceDate[1], inputs.raceDate[2], inputs.raceDate[3])
       - today.day

\* n = max(4, ceil(d / 7))
IsMaxFourCeil(n, d) == n >= 4 /\ 7 * n >= d /\ (n > 4 => 7 * (n - 1) < d)

\* the <<planType, raceDate, courseProfile, heatBlock>> of a PlanInputs
KeyOf(i) == <<i.planType, i.raceDate, i.courseProfile, i.heatBlock>>

----------------------------------------------------------------------------
(* Claims *)

\* C1: after any call totalWeeks is a number >= 4; it is 12 for maintenance
\* and maintenance_plus whatever raceDate is; for a race plan it is
\* max(4, ceil(d/7)) with d the calendar days from today to raceDate (0 when
\* raceDate is absent).
C1_WeekCount ==
  called =>
    /\ ~totalWeeks.nan
    /\ totalWeeks.v >= 4
    /\ inputs.planType # "race" => totalWeeks.v = 12
    /\ (inputs.planType = "race"
        /\ (Len(inputs.raceDate) = 0 \/ IsCalendarDate(inputs.raceDate)))
       => IsMaxFourCeil(totalWeeks.v, DaysToRace)

\* C2: the returned rows are in ascending order of calendar date.
C2_SortedByDate ==
  called =>
    \A i \in 1 .. (Len(rows) - 1) :
      CivilLeq(CivilOfRow(rows[i]), CivilOfRow(rows[i + 1]))

\* a plan was returned whose rows run over a new year, so that the order of
\* the printed day, month and year all matter
C2_Witness ==
  /\ called
  /\ Len(rows) > 20
  /\ \E i \in 1 .. (Len(rows) - 1) : rows[i].date[4] < rows[i + 1].date[4]

\* C3: a week with w % 4 = 3 has no VO2max row and no additional-VO2 row;
\* every other week has exactly one VO2max row, on day today + 7w + 4.
C3_DeloadNoVO2 ==
  called =>
    \A w \in Weeks :
      IF w % 4 = 3
      THEN CountOfWeek(w, IsVO2) = 0 /\ CountOfWeek(w, IsExtraVO2) = 0
      ELSE /\ CountOfWeek(w, IsVO2) = 1
           /\ \A i \in RowsOfWeek(w, IsVO2) : OffsetOfRow(rows[i]) = 7 * w + 4

\* a maintenance_plus plan of 12 weeks: three deload weeks without VO2 rows
\* and nine weeks with one
C3_Witness ==
  /\ called
  /\ inputs.planType = "maintenance_plus"
  /\ totalWeeks = Num(12)
  /\ Cardinality({i \in DOMAIN rows : IsVO2(rows[i])}) = 9
  /\ CountOfWeek(3, IsVO2) = 0

\* C4: heat rows: race + monoblock has exactly one in each of the last two
\* weeks and none elsewhere; race + biphasic exactly one in each of the first
\* two and last two weeks and none elsewhere; heatBlock none, or a plan that
\* is not a race plan, has none.  Every heat row is on day today + 7w + 1.
C4_HeatBlock ==
  called =>
    /\ \A w \in Weeks :
         CountOfWeek(w, IsHWI) =
           IF inputs.planType = "race" /\ inputs.heatBlock = "monoblock"
              /\ w >= totalWeeks.v - 2
           THEN 1
           ELSE IF inputs.planType = "race" /\ inputs.heatBlock = "biphasic"
                   /\ (w < 2 \/ w >= totalWeeks.v - 2)
           THEN 1
           ELSE 0
    /\ \A i \in DOMAIN rows :
         IsHWI(rows[i]) =>
           /\ WeekOfRow(rows[i]) \in Weeks
           /\ OffsetOfRow(rows[i]) = 7 * WeekOfRow(rows[i]) + 1

\* a biphasic race plan of four weeks, where the two blocks are adjacent, and
\* one of more weeks, where they are apart
C4_Witness ==
  /\ called
  /\ inputs.planType = "race"
  /\ inputs.heatBlock = "biphasic"
  /\ totalWeeks = Num(4)
  /\ Cardinality({i \in DOMAIN rows : IsHWI(rows[i])}) = 4

\* C5: the additional-VO2 row is in week w exactly when the plan is
\* maintenance_plus, w is odd and w % 4 # 3, and then on day today + 7w + 5.
C5_ExtraVO2 ==
  called =>
    /\ \A w \in Weeks :
         CountOfWeek(w, IsExtraVO2) =
           IF inputs.planType = "maintenance_plus" /\ w % 2 = 1 /\ w % 4 # 3
           THEN 1 ELSE 0
    /\ \A i \in DOMAIN rows :
         IsExtraVO2(rows[i]) =>
           /\ WeekOfRow(rows[i]) \in Weeks
           /\ OffsetOfRow(rows[i]) = 7 * WeekOfRow(rows[i]) + 5

\* a maintenance_plus plan with its three additional rows (weeks 1, 5, 9)
C5_Witness ==
  /\ called
  /\ inputs.planType = "maintenance_plus"
  /\ Cardinality({i \in DOMAIN rows : IsExtraVO2(rows[i])}) = 3
  /\ CountOfWeek(1, IsExtraVO2) = 1
  /\ CountOfWeek(3, IsExtraVO2) = 0

\* C6: a race plan whose raceDate is present and is not a date ends in a
\* reported failure: the call does not return rows, and no NaN week count
\* bounds the loop.
C6_InvalidDateSurfaced ==
  (/\ called
   /\ inputs.planType = "race"
   /\ Len(inputs.raceDate) # 0
   /\ ~IsCalendarDate(inputs.raceDate))
  => outcome = "threw" /\ ~totalWeeks.nan

\* C7: every week of the plan has exactly one long-run row and exactly one
\* midweek quality row, and every row belongs to a week of the plan.
C7_TwoRowsPerWeek ==
  called =>
    /\ \A w \in Weeks :
         CountOfWeek(w, IsLongRun) = 1 /\ CountOfWeek(w, IsMidweek) = 1
    /\ \A i \in DOMAIN rows : WeekOfRow(rows[i]) \in Weeks

\* a race plan of ten weeks
C7_Witness ==
  /\ called
  /\ totalWeeks = Num(10)
  /\ CountOfWeek(9, IsLongRun) = 1
  /\ CountOfWeek(9, IsMidweek) = 1

\* the positions of the long-run rows
LongRunPositions == {i \in DOMAIN rows : IsLongRun(rows[i])}

C10_UnusedInputsNoOp ==
  [][(called /\ called' /\ today' = today /\ KeyOf(inputs') = KeyOf(inputs))
       => rows' = rows /\ totalWeeks' = totalWeeks]_vars

\* a plan returned for inputs with every unused field filled in, equal to the
\* plan of the same day for the form's default values of those fields
C10_Witness ==
  /\ called
  /\ inputs.firefighter
  /\ inputs.currentHours = <<3>>
  /\ inputs.maxHours = <<12>>
  /\ Len(rows) > 0
  /\ rows = generatePlan(MkInputs(inputs.planType, inputs.raceDate,
                                  inputs.courseProfile, inputs.heatBlock,
                                  FormDefaults), today, tzWest)

====
